---- MODULE Spec2Model ----
(***************************************************************************)
(* A model of strava-kudos-bot: bot.py (main) and browser_manager.py       *)
(* (CustomPage, BrowserManager).                                           *)
(*                                                                         *)
(* Text is modelled as a sequence of one-character strings, so that        *)
(* str.lower(), the `in` test, str.split and Path.stem are computed as     *)
(* Python computes them.  The page (DOM, network, file system) is the      *)
(* environment; every `await` of the code is a step at which the task can  *)
(* be cancelled.                                                           *)
(***************************************************************************)
EXTENDS Integers, Sequences, FiniteSets, TLC

VARIABLES
    \* ---- the call execute_kudos_giving(number_of_scrolls_to_end, athletes_to_skip, save_map_path)
    number_of_scrolls_to_end,   \* int argument
    athletes_to_skip,           \* the skip list (a set of texts)
    save_map_path,              \* TRUE when a directory is given, FALSE for None
    pc,                         \* position of the task inside execute_kudos_giving
    scroll_i,                   \* i of `for i in range(number_of_scrolls_to_end)`
    feed_entries_count,         \* browser_manager.py:228
    entry_i,                    \* i of `for i in range(feed_entries_count)`
    kudos_buttons_count,        \* browser_manager.py:240
    button_j,                   \* j of `for j in range(kudos_buttons_count)`
    owner_name,                 \* browser_manager.py:250/254, <<>> before it is resolved
    exc,                        \* the exception leaving the call, "none" if none
    \* ---- the page
    feed,                       \* the feed entries of the DOM, as the page shows them now
    seen,                       \* the same entries as they were when the pass first saw them
    trace,                      \* what the task did to the page, in order
    cancelled,                  \* a cancellation was delivered to the task
    \* ---- the file system under save_map_path and the network
    files,                      \* set of [name, size]: the files of the target directory
    fetches,                    \* number of page.request.get calls made
    writes,                     \* number of write_bytes calls made
    map_calls,                  \* number of save_activity_map calls made
    map_imgs,                   \* the src attributes of the map images of the entry under test
    responses,                  \* the answers page.request.get gave, one per fetch
    \* ---- bot.py main and the BrowserManager singleton
    main_pc,                    \* position of main
    main_exc,                   \* the exception leaving main, "none" if none
    main_done,                  \* the awaits of main that completed without raising, in order
    playwright,                 \* manager.playwright: 0 for None, else the id of a driver
    context,                    \* manager.context: 0 for None, else the id of a context
    contexts,                   \* contexts launched so far: id -> [driver, closed]
    drivers,                    \* playwright drivers started so far: id -> stopped?
    close_calls,                \* number of manager.close_browser calls
    start_calls,                \* number of manager.start_browser calls
    constructions,              \* number of BrowserManager() constructions
    \* ---- accept_cookies and do_login on the page
    page_url,                   \* self._page.url
    dialog,                     \* the consent dialog of the page: absent, without its button, or whole
    login_buttons,              \* is_visible() of each button query_selector_all returned, in order
    btn_k,                      \* position of `for btn in login_buttons`
    auth_pc,                    \* position of the task inside accept_cookies and do_login
    auth_exc,                   \* the exception leaving accept_cookies or do_login, "none" if none
    auth_trace                  \* what accept_cookies and do_login did, in order

kudosVars == <<number_of_scrolls_to_end, athletes_to_skip, save_map_path, pc, scroll_i,
               feed_entries_count, entry_i, kudos_buttons_count, button_j, owner_name,
               exc, feed, seen, trace, cancelled>>
mapVars == <<files, fetches, writes, map_calls, map_imgs, responses>>
managerVars == <<playwright, context, contexts, drivers, close_calls, start_calls,
                 constructions>>
mainVars == <<main_pc, main_exc, main_done>>
authVars == <<page_url, dialog, login_buttons, btn_k, auth_pc, auth_exc, auth_trace>>
vars == <<kudosVars, mapVars, managerVars, mainVars, authVars>>

(***************************************************************************)
(* Bounds of the model.                                                    *)
(***************************************************************************)
MaxScrolls == 1     \* number_of_scrolls_to_end ranges over 0..MaxScrolls
MaxEntries == 2     \* feed entries in the DOM when give_kudos runs
MaxButtons == 2     \* kudos buttons of a group entry
MaxCalls == 2       \* calls of save_activity_map, start_browser, close_browser, BrowserManager()

(***************************************************************************)
(* Text.                                                                   *)
(***************************************************************************)
UpperChars == <<"A", "B", "H", "I", "J", "M", "O", "S", "T">>
LowerChars == <<"a", "b", "h", "i", "j", "m", "o", "s", "t">>

\* str.lower() on one character
LowerChar(c) ==
    IF \E k \in 1..Len(UpperChars) : UpperChars[k] = c
    THEN LowerChars[CHOOSE k \in 1..Len(UpperChars) : UpperChars[k] = c]
    ELSE c

\* str.lower()
Lower(s) == [k \in 1..Len(s) |-> LowerChar(s[k])]

\* Python's `sub in s` on str
Contains(sub, s) ==
    \E k \in 0..(Len(s) - Len(sub)) : SubSeq(s, k + 1, k + Len(sub)) = sub

AliceSmith == <<"A", "l", "i", "c", "e", " ", "S", "m", "i", "t", "h">>
BobJones == <<"B", "o", "b", " ", "J", "o", "n", "e", "s">>
Names == {AliceSmith, BobJones}

bob == <<"b", "o", "b">>
SMITH == <<"S", "M", "I", "T", "H">>
Patterns == {bob, SMITH}

(***************************************************************************)
(* The DOM of one feed entry, div[data-testid='web-feed-entry'].           *)
(*   labels : texts of the a[data-testid='owners-name'] of the entry that  *)
(*            lie outside every li (the entry's primary owner label)       *)
(*   wrap   : <<>> or <<[labels]>>: an li around all the items of a group  *)
(*            entry, with owner labels of its own placed before the items  *)
(*   items  : one li per kudos button, in document order; header says the  *)
(*            li holds a data-testid='entry-header' element, labels are    *)
(*            the owner labels inside the li, unfilled says the button     *)
(*            holds svg[data-testid='unfilled_kudos']                      *)
(*   maps   : the src attributes of the img[data-testid='map'] elements    *)
(***************************************************************************)
OneLabel == {<<>>} \cup {<<n>> : n \in Names}

Items == [header : BOOLEAN, labels : OneLabel, unfilled : BOOLEAN]

\* the items of a group entry: a headed li shows its athlete, a plain li shows none
GroupItems == {it \in Items : it.header <=> it.labels # <<>>}

\* a kudos button that sits directly in the entry
BareItem(u) == [header |-> FALSE, labels |-> <<>>, unfilled |-> u]

RECURSIVE SeqsOver(_, _)
\* the sequences of length n over S
SeqsOver(S, n) ==
    IF n = 0 THEN {<<>>}
    ELSE {Append(s, x) : s \in SeqsOver(S, n - 1), x \in S}

RECURSIVE Concat(_)
\* the concatenation of a sequence of sequences
Concat(ss) == IF ss = <<>> THEN <<>> ELSE Head(ss) \o Concat(Tail(ss))

\* the owner labels under an li wrapper: its own, then those of the items
LabelsUnderWrap(entry) ==
    Concat([k \in 1..Len(entry.wrap) |-> entry.wrap[k].labels])
        \o Concat([k \in 1..Len(entry.items) |-> entry.items[k].labels])

\* all owner labels of the entry, in document order
OwnerLabels(entry) ==
    entry.labels
        \o Concat([k \in 1..Len(entry.wrap) |-> entry.wrap[k].labels])
        \o Concat([k \in 1..Len(entry.items) |-> entry.items[k].labels])

(***************************************************************************)
(* give_kudos: owner resolution and the decision taken for one button.     *)
(* A lookup result is <<text>>, or <<>> when the locator fails (no match,  *)
(* or a strict-mode violation), which raises from inner_text().            *)
(***************************************************************************)
\* browser_manager.py:249-250: feed_entry.locator(owners-name).inner_text(), strict
SingleOwner(entry) ==
    IF Len(OwnerLabels(entry)) = 1 THEN <<OwnerLabels(entry)[1]>> ELSE <<>>

\* a plausible slip: the first owner label of the whole entry for every button
GroupOwnerFirstOfEntry(entry, j) ==
    IF OwnerLabels(entry) = <<>> THEN <<>> ELSE <<OwnerLabels(entry)[1]>>

\* browser_manager.py:252-254: the ancestor li elements of button j that hold an
\* entry header (outermost first, in document order), and the first owner label
\* under them
GroupOwner(entry, j) ==
    LET anyHeader == \E k \in 1..Len(entry.items) : entry.items[k].header
        under == IF entry.wrap # <<>> /\ anyHeader THEN LabelsUnderWrap(entry)
                 ELSE IF entry.items[j].header THEN entry.items[j].labels
                 ELSE <<>>
    IN  IF under = <<>> THEN <<>> ELSE <<under[1]>>

\* a plausible slip: a lookup that finds nothing yields the empty text
OwnerNameOrEmptyText(entry, j, count) ==
    LET found == IF count = 1 THEN SingleOwner(entry) ELSE GroupOwner(entry, j)
    IN  IF found = <<>> THEN <<<<>>>> ELSE found

\* browser_manager.py:248-254
OwnerName(entry, j, count) ==
    IF count = 1 THEN SingleOwner(entry) ELSE GroupOwner(entry, j)

\* a plausible slip: the pattern is not lower-cased
SkipsAthleteNoLower(name, skip) ==
    skip # {} /\ \E athlete \in skip : Contains(athlete, Lower(name))

\* browser_manager.py:265
SkipsAthlete(name, skip) ==
    skip # {} /\ \E athlete \in skip : Contains(Lower(athlete), Lower(name))

\* a plausible slip: the already-clicked test only guards the skip list
DecideSkipListFirst(is_unfilled, name, skip) ==
    IF skip = {} THEN "click"
    ELSE IF ~is_unfilled THEN "already"
    ELSE IF SkipsAthlete(name, skip) THEN "skip"
    ELSE "click"

\* a plausible slip: every athlete is skipped once a skip list is given
DecideSkipAll(is_unfilled, name, skip) ==
    IF ~is_unfilled THEN "already"
    ELSE IF skip # {} THEN "skip"
    ELSE "click"

\* browser_manager.py:261-270
Decide(is_unfilled, name, skip) ==
    IF ~is_unfilled THEN "already"
    ELSE IF SkipsAthlete(name, skip) THEN "skip"
    ELSE "click"

(***************************************************************************)
(* Control flow of execute_kudos_giving, scroll_to_bottom_of_page and      *)
(* give_kudos.  A pc names the await the task is suspended at.             *)
(***************************************************************************)
ScrollAwaits == {"eval_scroll_to", "sleep_3", "eval_scroll_by", "sleep_12"}
PassAwaits == {"count_entries", "save_map", "count_buttons", "inner_text",
               "count_unfilled", "click", "sleep_entry"}
Awaits == ScrollAwaits \cup PassAwaits

\* a plausible slip: range(number_of_scrolls_to_end - 1)
ForScrollOffByOne(i, n) == IF i + 1 < n THEN "eval_scroll_to" ELSE "count_entries"

\* browser_manager.py:133-138: the loop head, then the call of give_kudos
ForScroll(i, n) == IF i < n THEN "eval_scroll_to" ELSE "count_entries"

\* a plausible slip: the map is not saved before the buttons are looked at
ForEntryNoSave(i, count, save) == IF i < count THEN "count_buttons" ELSE "returned"

\* browser_manager.py:232-237
ForEntry(i, count, save) ==
    IF i < count THEN (IF save THEN "save_map" ELSE "count_buttons") ELSE "returned"

\* a plausible slip: an entry without buttons ends the pass
ForButtonReturnsOnEmpty(j, count) ==
    IF count = 0 THEN "returned" ELSE IF j < count THEN "inner_text" ELSE "sleep_entry"

\* browser_manager.py:245, 272
ForButton(j, count) == IF j < count THEN "inner_text" ELSE "sleep_entry"

\* a plausible slip: the handler logs and forgets to re-raise
ExceptClauseSwallow(e) ==
    IF e = "CancelledError" THEN [log |-> TRUE, pc |-> "returned", exc |-> "none"]
    ELSE [log |-> FALSE, pc |-> "raised", exc |-> e]

\* browser_manager.py:139-141: `except asyncio.CancelledError:` logs and re-raises;
\* any other exception leaves the try statement untouched
ExceptClause(e) ==
    IF e = "CancelledError" THEN [log |-> TRUE, pc |-> "raised", exc |-> e]
    ELSE [log |-> FALSE, pc |-> "raised", exc |-> e]

(***************************************************************************)
(* save_activity_map: text helpers, the network response, the file system. *)
(***************************************************************************)
\* the least index of s holding a character of C at or after index from, 0 if none
Find(s, C, from) ==
    IF \E k \in from..Len(s) : s[k] \in C
    THEN CHOOSE k \in from..Len(s) : s[k] \in C /\ \A m \in from..(k - 1) : s[m] \notin C
    ELSE 0

\* the greatest index of s holding a character of C, 0 if none
RFind(s, C) ==
    IF \E k \in 1..Len(s) : s[k] \in C
    THEN CHOOSE k \in 1..Len(s) : s[k] \in C /\ \A m \in (k + 1)..Len(s) : s[m] \notin C
    ELSE 0

\* s.split(d)[-1]
SplitLast(s, d) == SubSeq(s, RFind(s, {d}) + 1, Len(s))

\* s.split(d)[0]
SplitFirst(s, d) == IF Find(s, {d}, 1) = 0 THEN s ELSE SubSeq(s, 1, Find(s, {d}, 1) - 1)

SchemeChars == {"h", "t", "p", "s"}

\* urllib.parse.urlsplit: the text left once a scheme and a netloc are taken off
AfterNetloc(url) ==
    LET colon == Find(url, {":"}, 1)
        scheme == colon > 1 /\ \A k \in 1..(colon - 1) : url[k] \in SchemeChars
        rest == IF scheme THEN SubSeq(url, colon + 1, Len(url)) ELSE url
        netloc == Len(rest) >= 2 /\ rest[1] = "/" /\ rest[2] = "/"
        delim == Find(rest, {"/", "?", "#"}, 3)
    IN  IF ~netloc THEN rest
        ELSE IF delim = 0 THEN <<>>
        ELSE SubSeq(rest, delim, Len(rest))

\* urllib.parse.urlparse(src).path: fragment, query and the parameters of the last
\* segment are taken off
UrlPath(src) ==
    LET noFragment == SplitFirst(AfterNetloc(src), "#")
        noQuery == SplitFirst(noFragment, "?")
        semi == Find(noQuery, {";"}, RFind(noQuery, {"/"}) + 1)
    IN  IF semi = 0 THEN noQuery ELSE SubSeq(noQuery, 1, semi - 1)

RECURSIVE StripSlashes(_)
\* pathlib drops trailing separators
StripSlashes(path) ==
    IF path # <<>> /\ path[Len(path)] = "/"
    THEN StripSlashes(SubSeq(path, 1, Len(path) - 1))
    ELSE path

\* pathlib.PurePath.name: the last segment
PathName(path) == SplitLast(StripSlashes(path), "/")

\* pathlib.PurePath.stem: the name up to its last dot, when that dot is neither the
\* first nor the last character of the name
PathStem(path) ==
    LET name == PathName(path)
        dot == RFind(name, {"."})
    IN  IF 1 < dot /\ dot < Len(name) THEN SubSeq(name, 1, dot - 1) ELSE name

DefaultContentType == <<"i", "m", "a", "g", "e", "/", "p", "n", "g">>
DefaultFilename == <<"m", "a", "p">>

\* a plausible slip: the part before the `/` is taken as the extension
ExtensionFirstPart(content_type) == SplitFirst(SplitFirst(content_type, "/"), ";")

\* browser_manager.py:197
Extension(content_type) == SplitFirst(SplitLast(content_type, "/"), ";")

\* browser_manager.py:199-200
Filename(src) == IF PathStem(UrlPath(src)) # <<>> THEN PathStem(UrlPath(src)) ELSE DefaultFilename

\* browser_manager.py:196-204: the name of the file under save_map_path
TargetName(src, resp) ==
    Filename(src) \o <<".">>
        \o Extension(IF resp.content_type = <<>> THEN DefaultContentType
                     ELSE resp.content_type[1])

\* browser_manager.py:206
AlreadyExists(fs, name) == \E f \in fs : f.name = name /\ f.size > 0

\* a plausible slip: the status of the response is not looked at
SaveActivityMapIgnoresStatus(st, save, imgs, resp) ==
    IF ~save THEN st
    ELSE IF Len(imgs) # 1 THEN st
    ELSE IF imgs[1] = <<>> THEN st
    ELSE IF AlreadyExists(st.files, TargetName(imgs[1], resp))
         THEN [st EXCEPT !.fetches = @ + 1]
    ELSE [st EXCEPT !.fetches = @ + 1,
                    !.writes = @ + 1,
                    !.files = {f \in @ : f.name # TargetName(imgs[1], resp)}
                                \cup {[name |-> TargetName(imgs[1], resp),
                                       size |-> resp.size]}]

\* browser_manager.py:172-212: the whole of save_activity_map on the state
\* st = [files, fetches, writes], for an entry whose map images have the src
\* attributes imgs (<<>> for a missing or empty src), the network answering resp
SaveActivityMap(st, save, imgs, resp) ==
    IF ~save THEN st
    ELSE IF Len(imgs) # 1 THEN st
    ELSE IF imgs[1] = <<>> THEN st
    ELSE IF ~resp.ok THEN [st EXCEPT !.fetches = @ + 1]
    ELSE IF AlreadyExists(st.files, TargetName(imgs[1], resp))
         THEN [st EXCEPT !.fetches = @ + 1]
    ELSE [st EXCEPT !.fetches = @ + 1,
                    !.writes = @ + 1,
                    !.files = {f \in @ : f.name # TargetName(imgs[1], resp)}
                                \cup {[name |-> TargetName(imgs[1], resp),
                                       size |-> resp.size]}]

\* whether the call reaches page.request.get (browser_manager.py:192)
Fetches(save, imgs) == save /\ Len(imgs) = 1 /\ imgs[1] # <<>>

SrcXyz == <<"h", ":", "/", "/", "c", "/", "x", "y", "z", "1", "2", "3", ".", "p", "n", "g">>
SrcQuery == <<"h", ":", "/", "/", "c", "/", "m", "/", "a", ".", "b", ".", "p", "n", "g", "?", "s", "=", "1", "/", "2">>
SrcRoot == <<"h", ":", "/", "/", "c", "/">>
Srcs == {SrcXyz, SrcQuery, SrcRoot}

ImagePng == <<"i", "m", "a", "g", "e", "/", "p", "n", "g">>
ImageJpegCharset == <<"i", "m", "a", "g", "e", "/", "j", "p", "e", "g", ";", "c", "h", "a", "r", "s", "e", "t", "=", "b", "i", "n", "a", "r", "y">>
ImagePngParamSlash == <<"i", "m", "a", "g", "e", "/", "p", "n", "g", ";", "p", "=", "a", "/", "b">>
ContentTypes == {<<>>, <<ImagePng>>, <<ImageJpegCharset>>, <<ImagePngParamSlash>>}

\* what page.request.get can answer: status ok or not, a content-type header or
\* none, a body of size bytes
Responses == [ok : BOOLEAN, content_type : ContentTypes, size : 0..1]

(***************************************************************************)
(* The feed the page shows.  The locators of give_kudos are resolved when  *)
(* they are used, so an entry is drawn when the pass moves on to it.       *)
(***************************************************************************)
\* the map images an entry can hold; they are looked at only when save_map_path is given
MapChoices(save) == IF save THEN {<<>>, <<SrcXyz>>} ELSE {<<>>}

\* an entry without a kudos button, or with one button and the entry's own labels
SimpleEntries(save) ==
    [labels : {<<>>}, wrap : {<<>>}, items : {<<>>}, maps : MapChoices(save)]
        \cup [labels : OneLabel, wrap : {<<>>},
              items : {<<BareItem(u)>> : u \in BOOLEAN}, maps : MapChoices(save)]

\* a group entry: two or more li items, each with its button, maybe inside one more li
GroupEntries ==
    [labels : {<<>>},
     wrap : {<<>>} \cup {<<[labels |-> l]>> : l \in OneLabel},
     items : UNION {SeqsOver(GroupItems, k) : k \in 2..MaxButtons},
     maps : {<<>>}]

EntryChoices(count, save) ==
    IF count = 1 THEN SimpleEntries(save) \cup GroupEntries ELSE SimpleEntries(save)

\* the answers of page.request.get during a pass
PassResponses == {r \in Responses : r.content_type = <<ImagePng>> /\ r.size = 1}

MapIdle ==
    /\ files = {}
    /\ fetches = 0
    /\ writes = 0
    /\ map_calls = 0
    /\ map_imgs = <<>>
    /\ responses = <<>>

ManagerIdle ==
    /\ playwright = 0
    /\ context = 0
    /\ contexts = <<>>
    /\ drivers = <<>>
    /\ close_calls = 0
    /\ start_calls = 0
    /\ constructions = 1

KudosIdle ==
    /\ number_of_scrolls_to_end = 0
    /\ athletes_to_skip = {}
    /\ save_map_path = FALSE
    /\ pc = "idle"
    /\ scroll_i = 0
    /\ feed_entries_count = 0
    /\ entry_i = 0
    /\ kudos_buttons_count = 0
    /\ button_j = 0
    /\ owner_name = <<>>
    /\ exc = "none"
    /\ feed = <<>>
    /\ seen = <<>>
    /\ trace = <<>>
    /\ cancelled = FALSE

MainIdle ==
    /\ main_pc = "idle"
    /\ main_exc = "none"
    /\ main_done = <<>>

AuthIdle ==
    /\ page_url = <<>>
    /\ dialog = "absent"
    /\ login_buttons = <<>>
    /\ btn_k = 0
    /\ auth_pc = "idle"
    /\ auth_exc = "none"
    /\ auth_trace = <<>>

(***************************************************************************)
(* execute_kudos_giving called on a page that shows the dashboard.         *)
(***************************************************************************)
InitKudos ==
    /\ number_of_scrolls_to_end \in 0..MaxScrolls
    /\ athletes_to_skip \in SUBSET Patterns
    /\ save_map_path \in BOOLEAN
    /\ pc = ForScroll(0, number_of_scrolls_to_end)
    /\ scroll_i = 0
    /\ feed_entries_count = 0
    /\ entry_i = 0
    /\ kudos_buttons_count = 0
    /\ button_j = 0
    /\ owner_name = <<>>
    /\ exc = "none"
    /\ feed = <<>>
    /\ seen = <<>>
    /\ trace = <<>>
    /\ cancelled = FALSE
    /\ MapIdle
    /\ ManagerIdle
    /\ MainIdle
    /\ AuthIdle

\* an exception e raised at an await inside the try statement of execute_kudos_giving
Raise(e) ==
    /\ pc' = ExceptClause(e).pc
    /\ exc' = ExceptClause(e).exc
    /\ trace' = IF ExceptClause(e).log THEN Append(trace, <<"log_cancelled", 0, 0>>)
                ELSE trace

\* the pass moves on to entry i of count: the entry is resolved against the DOM
EnterEntry(i, count) ==
    /\ pc' = ForEntry(i, count, save_map_path)
    /\ IF i < count
       THEN \E e \in EntryChoices(count, save_map_path) :
                /\ feed' = Append(feed, e)
                /\ seen' = Append(seen, e)
       ELSE UNCHANGED <<feed, seen>>

\* browser_manager.py:145
EvalScrollTo ==
    /\ pc = "eval_scroll_to"
    /\ pc' = "sleep_3"
    /\ UNCHANGED <<number_of_scrolls_to_end, athletes_to_skip, save_map_path, scroll_i,
                   feed_entries_count, entry_i, kudos_buttons_count, button_j,
                   owner_name, exc, feed, seen, trace, cancelled>>
    /\ UNCHANGED <<mapVars, managerVars, mainVars, authVars>>

\* browser_manager.py:146
Sleep3 ==
    /\ pc = "sleep_3"
    /\ pc' = "eval_scroll_by"
    /\ UNCHANGED <<number_of_scrolls_to_end, athletes_to_skip, save_map_path, scroll_i,
                   feed_entries_count, entry_i, kudos_buttons_count, button_j,
                   owner_name, exc, feed, seen, trace, cancelled>>
    /\ UNCHANGED <<mapVars, managerVars, mainVars, authVars>>

\* browser_manager.py:148
EvalScrollBy ==
    /\ pc = "eval_scroll_by"
    /\ pc' = "sleep_12"
    /\ UNCHANGED <<number_of_scrolls_to_end, athletes_to_skip, save_map_path, scroll_i,
                   feed_entries_count, entry_i, kudos_buttons_count, button_j,
                   owner_name, exc, feed, seen, trace, cancelled>>
    /\ UNCHANGED <<mapVars, managerVars, mainVars, authVars>>

\* browser_manager.py:149, then back to the loop of browser_manager.py:133
Sleep12 ==
    /\ pc = "sleep_12"
    /\ trace' = Append(trace, <<"scrolled", scroll_i, 0>>)
    /\ scroll_i' = scroll_i + 1
    /\ pc' = ForScroll(scroll_i + 1, number_of_scrolls_to_end)
    /\ UNCHANGED <<number_of_scrolls_to_end, athletes_to_skip, save_map_path,
                   feed_entries_count, entry_i, kudos_buttons_count, button_j,
                   owner_name, exc, feed, seen, cancelled>>
    /\ UNCHANGED <<mapVars, managerVars, mainVars, authVars>>

\* browser_manager.py:227-232
CountEntries ==
    /\ pc = "count_entries"
    /\ \E count \in 0..MaxEntries :
        /\ feed_entries_count' = count
        /\ EnterEntry(0, count)
    /\ entry_i' = 0
    /\ trace' = Append(trace, <<"give_kudos", 0, 0>>)
    /\ UNCHANGED <<number_of_scrolls_to_end, athletes_to_skip, save_map_path, scroll_i,
                   kudos_buttons_count, button_j, owner_name, exc, cancelled>>
    /\ UNCHANGED <<mapVars, managerVars, mainVars, authVars>>

\* browser_manager.py:235-237
SaveMap ==
    /\ pc = "save_map"
    /\ \E resp \in PassResponses :
        LET st == SaveActivityMap([files |-> files, fetches |-> fetches, writes |-> writes],
                                  save_map_path, feed[entry_i + 1].maps, resp)
        IN  /\ files' = st.files
            /\ fetches' = st.fetches
            /\ writes' = st.writes
            /\ responses' = IF st.fetches = fetches THEN responses
                             ELSE Append(responses, resp)
    /\ map_calls' = map_calls + 1
    /\ trace' = Append(trace, <<"save_map", entry_i, 0>>)
    /\ pc' = "count_buttons"
    /\ UNCHANGED <<number_of_scrolls_to_end, athletes_to_skip, save_map_path, scroll_i,
                   feed_entries_count, entry_i, kudos_buttons_count, button_j,
                   owner_name, exc, feed, seen, cancelled>>
    /\ UNCHANGED <<map_imgs, managerVars, mainVars, authVars>>

\* browser_manager.py:239-245
CountButtons ==
    /\ pc = "count_buttons"
    /\ kudos_buttons_count' = Len(feed[entry_i + 1].items)
    /\ button_j' = 0
    /\ pc' = ForButton(0, Len(feed[entry_i + 1].items))
    /\ UNCHANGED <<number_of_scrolls_to_end, athletes_to_skip, save_map_path, scroll_i,
                   feed_entries_count, entry_i, owner_name, exc, feed, seen, trace,
                   cancelled>>
    /\ UNCHANGED <<mapVars, managerVars, mainVars, authVars>>

\* browser_manager.py:246-256: inner_text() raises when the locator resolves nothing
InnerText ==
    /\ pc = "inner_text"
    /\ LET found == OwnerName(feed[entry_i + 1], button_j + 1, kudos_buttons_count)
       IN  IF found = <<>>
           THEN /\ pc' = ExceptClause("Error").pc
                /\ exc' = ExceptClause("Error").exc
                /\ owner_name' = owner_name
           ELSE /\ pc' = "count_unfilled"
                /\ exc' = exc
                /\ owner_name' = found
    /\ trace' = Append(trace, <<"owner", entry_i, button_j>>)
    /\ UNCHANGED <<number_of_scrolls_to_end, athletes_to_skip, save_map_path, scroll_i,
                   feed_entries_count, entry_i, kudos_buttons_count, button_j,
                   feed, seen, cancelled>>
    /\ UNCHANGED <<mapVars, managerVars, mainVars, authVars>>

\* browser_manager.py:258-267
CountUnfilled ==
    /\ pc = "count_unfilled"
    /\ LET decision == Decide(feed[entry_i + 1].items[button_j + 1].unfilled,
                              owner_name[1], athletes_to_skip)
       IN  IF decision = "click"
           THEN /\ pc' = "click"
                /\ UNCHANGED <<button_j, trace>>
           ELSE /\ button_j' = button_j + 1
                /\ pc' = ForButton(button_j + 1, kudos_buttons_count)
                /\ trace' = Append(trace, <<decision, entry_i, button_j>>)
    /\ UNCHANGED <<number_of_scrolls_to_end, athletes_to_skip, save_map_path, scroll_i,
                   feed_entries_count, entry_i, kudos_buttons_count, owner_name, exc,
                   feed, seen, cancelled>>
    /\ UNCHANGED <<mapVars, managerVars, mainVars, authVars>>

\* browser_manager.py:269-270: the click; the page fills the icon of the button
Click ==
    /\ pc = "click"
    /\ trace' = Append(trace, <<"click", entry_i, button_j>>)
    /\ feed' = [feed EXCEPT ![entry_i + 1].items[button_j + 1].unfilled = FALSE]
    /\ button_j' = button_j + 1
    /\ pc' = ForButton(button_j + 1, kudos_buttons_count)
    /\ UNCHANGED <<number_of_scrolls_to_end, athletes_to_skip, save_map_path, scroll_i,
                   feed_entries_count, entry_i, kudos_buttons_count, owner_name, exc,
                   seen, cancelled>>
    /\ UNCHANGED <<mapVars, managerVars, mainVars, authVars>>

\* browser_manager.py:272, then back to the loop of browser_manager.py:232
SleepEntry ==
    /\ pc = "sleep_entry"
    /\ entry_i' = entry_i + 1
    /\ EnterEntry(entry_i + 1, feed_entries_count)
    /\ UNCHANGED <<number_of_scrolls_to_end, athletes_to_skip, save_map_path, scroll_i,
                   feed_entries_count, kudos_buttons_count, button_j, owner_name, exc,
                   trace, cancelled>>
    /\ UNCHANGED <<mapVars, managerVars, mainVars, authVars>>

\* the awaits that call into the browser; asyncio.sleep is not one of them
BrowserAwaits == Awaits \ {"sleep_3", "sleep_12", "sleep_entry"}

\* a call into the browser raises (page closed, timeout, evaluation failed)
BrowserCallFails ==
    /\ pc \in BrowserAwaits
    /\ Raise("Error")
    /\ UNCHANGED <<number_of_scrolls_to_end, athletes_to_skip, save_map_path, scroll_i,
                   feed_entries_count, entry_i, kudos_buttons_count, button_j,
                   owner_name, feed, seen, cancelled>>
    /\ UNCHANGED <<mapVars, managerVars, mainVars, authVars>>

\* the task is cancelled while suspended at an await: CancelledError is raised there
Cancel ==
    /\ pc \in Awaits
    /\ cancelled' = TRUE
    /\ Raise("CancelledError")
    /\ UNCHANGED <<number_of_scrolls_to_end, athletes_to_skip, save_map_path, scroll_i,
                   feed_entries_count, entry_i, kudos_buttons_count, button_j,
                   owner_name, feed, seen>>
    /\ UNCHANGED <<mapVars, managerVars, mainVars, authVars>>

NextKudos ==
    \/ EvalScrollTo
    \/ Sleep3
    \/ EvalScrollBy
    \/ Sleep12
    \/ CountEntries
    \/ SaveMap
    \/ CountButtons
    \/ InnerText
    \/ CountUnfilled
    \/ Click
    \/ SleepEntry
    \/ BrowserCallFails
    \/ Cancel

SpecKudos == InitKudos /\ [][NextKudos]_vars

(***************************************************************************)
(* Properties of execute_kudos_giving and give_kudos, under SpecKudos.     *)
(***************************************************************************)
\* the number of clicks made on button j of entry e (both counted from 0)
ClickCount(e, j) == Cardinality({k \in 1..Len(trace) : trace[k] = <<"click", e, j>>})

\* the indices of the trace at which a click was made
ClickIndices == {k \in 1..Len(trace) : trace[k][1] = "click"}

\* p is a substring of name when letter case is ignored
CaseInsensitiveSubstring(p, name) ==
    \E k \in 0..(Len(name) - Len(p)) :
        \A m \in 1..Len(p) : LowerChar(p[m]) = LowerChar(name[k + m])

\* the owner text the pass resolved for button j of entry e: the entry's only
\* label for a single button, else the label the group rules give
ResolvedOwner(e, j) == OwnerName(seen[e + 1], j + 1, Len(seen[e + 1].items))

C4_FilledNeverClicked ==
    \A e \in 0..(Len(seen) - 1) :
        \A j \in 0..(Len(seen[e + 1].items) - 1) :
            ~seen[e + 1].items[j + 1].unfilled => ClickCount(e, j) = 0

C4_Witness ==
    /\ athletes_to_skip = {}
    /\ pc = "returned"
    /\ \E k \in 1..Len(trace) :
        /\ trace[k][1] = "already"
        /\ ~seen[trace[k][2] + 1].items[trace[k][3] + 1].unfilled

\* C5: a kudos button whose resolved owner name has some pattern of the skip
\* list as a case-insensitive substring is never clicked, unfilled or not.
C5_SkippedNeverClicked ==
    \A k \in ClickIndices :
        \A p \in athletes_to_skip :
            ~CaseInsensitiveSubstring(p, ResolvedOwner(trace[k][2], trace[k][3])[1])

C5_Witness ==
    /\ pc = "returned"
    /\ athletes_to_skip = {SMITH}
    /\ \E k \in 1..Len(trace) :
        /\ trace[k][1] = "skip"
        /\ seen[trace[k][2] + 1].items[trace[k][3] + 1].unfilled
        /\ ResolvedOwner(trace[k][2], trace[k][3]) = <<AliceSmith>>

NearestLabelledLi(entry, j) ==
    IF entry.items[j].labels # <<>> THEN <<entry.items[j].labels[1]>>
    ELSE IF entry.wrap # <<>> /\ LabelsUnderWrap(entry) # <<>>
         THEN <<LabelsUnderWrap(entry)[1]>>
    ELSE <<>>

FirstOf(labels) == IF labels = <<>> THEN <<>> ELSE <<labels[1]>>

\* the entry of the example: two li items outside any other li, each with its
\* entry header, the first Alice Smith's, the second Bob Jones's
AliceBobEntry(entry) ==
    /\ entry.wrap = <<>>
    /\ Len(entry.items) = 2
    /\ entry.items[1].header /\ entry.items[1].labels = <<AliceSmith>>
    /\ entry.items[2].header /\ entry.items[2].labels = <<BobJones>>

C9_CancelPropagates ==
    /\ [](cancelled =>
            /\ pc = "raised"
            /\ exc = "CancelledError"
            /\ trace[Len(trace)] = <<"log_cancelled", 0, 0>>)
    /\ [][(cancelled' /\ ~cancelled) =>
            /\ feed' = feed
            /\ trace' = Append(trace, <<"log_cancelled", 0, 0>>)]_vars
    /\ [][cancelled => (feed' = feed /\ trace' = trace)]_vars

C9_Witness ==
    /\ cancelled
    /\ pc = "raised"
    /\ ClickIndices # {}
    /\ entry_i < feed_entries_count

(***************************************************************************)
(* save_activity_map called again and again for one feed entry and one     *)
(* target directory.                                                       *)
(***************************************************************************)
\* the map images of the entry: none, one (with or without a src), or two
MapImgChoices ==
    {<<>>, <<<<>>>>, <<SrcXyz, SrcXyz>>} \cup {<<src>> : src \in Srcs}

\* the target directory at the start: empty, or holding an empty file left by
\* a write that did not finish
FilesAtStart == {{}, {[name |-> TargetName(SrcXyz, [content_type |-> <<>>]), size |-> 0]}}

InitMap ==
    /\ KudosIdle
    /\ ManagerIdle
    /\ MainIdle
    /\ AuthIdle
    /\ files \in FilesAtStart
    /\ fetches = 0
    /\ writes = 0
    /\ map_calls = 0
    /\ map_imgs \in MapImgChoices
    /\ responses = <<>>

\* browser_manager.py:172-212, called with a directory
SaveActivityMapCall ==
    /\ map_calls < MaxCalls
    /\ \E resp \in Responses :
        LET st == SaveActivityMap([files |-> files, fetches |-> fetches, writes |-> writes],
                                  TRUE, map_imgs, resp)
        IN  /\ files' = st.files
            /\ fetches' = st.fetches
            /\ writes' = st.writes
            /\ responses' = IF st.fetches = fetches THEN responses
                             ELSE Append(responses, resp)
    /\ map_calls' = map_calls + 1
    /\ UNCHANGED map_imgs
    /\ UNCHANGED <<kudosVars, managerVars, mainVars, authVars>>

\* browser_manager.py:181-182, called without a directory
SaveActivityMapNoPath ==
    /\ map_calls < MaxCalls
    /\ \E resp \in Responses :
        LET st == SaveActivityMap([files |-> files, fetches |-> fetches, writes |-> writes],
                                  FALSE, map_imgs, resp)
        IN  /\ files' = st.files
            /\ fetches' = st.fetches
            /\ writes' = st.writes
    /\ map_calls' = map_calls + 1
    /\ UNCHANGED <<map_imgs, responses>>
    /\ UNCHANGED <<kudosVars, managerVars, mainVars, authVars>>

NextMap ==
    \/ SaveActivityMapCall
    \/ SaveActivityMapNoPath

SpecMap == InitMap /\ [][NextMap]_vars

\* C8: two calls of save_activity_map for one map image and one directory, the
\* directory empty at first and the network giving the same successful,
\* non-empty answer, make one fetch and one write and leave one file.
C8_SecondCallNoFetch ==
    (/\ map_calls = 2
     /\ Len(map_imgs) = 1
     /\ map_imgs[1] # <<>>
     /\ writes >= 1
     /\ Cardinality(files) = 1
     /\ \A k \in 1..Len(responses) :
            responses[k] = responses[1] /\ responses[k].ok /\ responses[k].size > 0)
        => (fetches = 1 /\ writes = 1)

(***************************************************************************)
(* BrowserManager: the singleton, start_browser and close_browser.         *)
(***************************************************************************)
\* a context is live while it is not closed and its driver is not stopped
LiveContexts ==
    {c \in 1..Len(contexts) : ~contexts[c].closed /\ ~drivers[contexts[c].driver]}

\* browser_manager.py:302-316: BrowserManager() returns the one instance and
\* runs __init__ on it again
DoConstruct ==
    /\ constructions' = constructions + 1
    /\ playwright' = 0
    /\ context' = 0
    /\ UNCHANGED <<contexts, drivers, close_calls, start_calls>>

\* browser_manager.py:318-353.  at says where the call raises: "start" in
\* async_playwright().start(), "launch" in launch_persistent_context, "ok" nowhere
DoStartBrowser(at) ==
    LET need == playwright = 0
        driver == IF need THEN Len(drivers) + 1 ELSE playwright
    IN  /\ start_calls' = start_calls + 1
        /\ IF at = "start" THEN need
           ELSE IF at = "ok" /\ ~need THEN ~drivers[playwright]
           ELSE TRUE
        /\ IF at = "start"
           THEN UNCHANGED <<playwright, drivers, context, contexts>>
           ELSE /\ playwright' = driver
                /\ drivers' = IF need THEN Append(drivers, FALSE) ELSE drivers
                /\ IF at = "launch"
                   THEN UNCHANGED <<context, contexts>>
                   ELSE /\ contexts' = Append(contexts, [driver |-> driver, closed |-> FALSE])
                        /\ context' = Len(contexts) + 1
        /\ UNCHANGED <<close_calls, constructions>>

\* browser_manager.py:364-375.  at says where the call raises: "close" in
\* context.close(), "stop" in playwright.stop(), "ok" nowhere
DoCloseBrowser(at) ==
    /\ close_calls' = close_calls + 1
    /\ IF at = "close" THEN context # 0
       ELSE IF at = "stop" THEN playwright # 0
       ELSE TRUE
    /\ contexts' = IF context # 0 /\ at # "close"
                   THEN [contexts EXCEPT ![context].closed = TRUE] ELSE contexts
    /\ drivers' = IF playwright # 0 /\ at = "ok"
                  THEN [drivers EXCEPT ![playwright] = TRUE] ELSE drivers
    /\ UNCHANGED <<playwright, context, start_calls, constructions>>

InitManager ==
    /\ KudosIdle
    /\ MapIdle
    /\ MainIdle
    /\ AuthIdle
    /\ ManagerIdle

Construct ==
    /\ constructions <= MaxCalls
    /\ DoConstruct
    /\ UNCHANGED <<kudosVars, mapVars, mainVars, authVars>>

StartBrowser ==
    /\ start_calls < MaxCalls
    /\ \E at \in {"ok", "start", "launch"} : DoStartBrowser(at)
    /\ UNCHANGED <<kudosVars, mapVars, mainVars, authVars>>

CloseBrowser ==
    /\ close_calls < MaxCalls
    /\ \E at \in {"ok", "close", "stop"} : DoCloseBrowser(at)
    /\ UNCHANGED <<kudosVars, mapVars, mainVars, authVars>>

NextManager ==
    \/ Construct
    \/ StartBrowser
    \/ CloseBrowser

SpecManager == InitManager /\ [][NextManager]_vars

\* C10: whatever constructions, start_browser and close_browser calls were
\* made, at most one context is live and the manager references it.
C10_OneLiveContext ==
    /\ Cardinality(LiveContexts) <= 1
    /\ \A c \in LiveContexts : context = c

(***************************************************************************)
(* bot.py: one run of main.                                                *)
(***************************************************************************)
\* the parameters of execute_kudos_giving (browser_manager.py:121-124)
Parameters == {"number_of_scrolls_to_end", "athletes_to_skip", "save_map_path"}

\* the keyword arguments main passes (bot.py:37-41)
KeywordsOfMain == {"number_of_scrolls_to_end", "interval", "athletes_to_skip"}

\* Python binds the arguments before the coroutine is created: a keyword that
\* names no parameter raises TypeError
BindArguments(keywords) == IF keywords \subseteq Parameters THEN "none" ELSE "TypeError"

\* a plausible slip: only the timeout of the wait is caught
AcceptCookiesCatchesTimeoutOnly(e) == e = "TimeoutError"

\* browser_manager.py:92: `except Exception` catches everything but
\* CancelledError, which derives from BaseException
AcceptCookiesCatches(e) == e # "CancelledError"

\* what an await can raise
Raised == {"Error", "CancelledError"}

InitMain ==
    /\ number_of_scrolls_to_end \in 0..MaxScrolls
    /\ athletes_to_skip \in SUBSET Patterns
    /\ save_map_path = FALSE
    /\ pc = "idle"
    /\ scroll_i = 0
    /\ feed_entries_count = 0
    /\ entry_i = 0
    /\ kudos_buttons_count = 0
    /\ button_j = 0
    /\ owner_name = <<>>
    /\ exc = "none"
    /\ feed = <<>>
    /\ seen = <<>>
    /\ trace = <<>>
    /\ cancelled = FALSE
    /\ MapIdle
    /\ ManagerIdle
    /\ AuthIdle
    /\ main_pc = "start_browser"
    /\ main_exc = "none"
    /\ main_done = <<>>

\* bot.py:28: outside the try statement, so an exception leaves main at once
MainStartBrowser ==
    /\ main_pc = "start_browser"
    /\ \E at \in {"ok", "start", "launch"} :
        /\ DoStartBrowser(at)
        /\ IF at = "ok"
           THEN /\ main_pc' = "new_page"
                /\ main_exc' = main_exc
                /\ main_done' = Append(main_done, "start_browser")
           ELSE /\ main_pc' = "exited"
                /\ main_exc' \in Raised
                /\ main_done' = main_done
    /\ UNCHANGED <<kudosVars, mapVars, authVars>>

\* an await of the try block of bot.py:30-41 that either completes, and main
\* moves on to next, or raises, and main moves to the finally clause
MainAwait(here, next) ==
    /\ main_pc = here
    /\ \/ /\ main_pc' = next
          /\ main_exc' = main_exc
          /\ main_done' = Append(main_done, here)
       \/ /\ main_pc' = "close_browser"
          /\ main_exc' \in Raised
          /\ main_done' = main_done
    /\ UNCHANGED <<kudosVars, mapVars, managerVars, authVars>>

\* bot.py:31
MainNewPage == MainAwait("new_page", "goto")

\* bot.py:32
MainGoto == MainAwait("goto", "accept_cookies")

\* bot.py:33 with browser_manager.py:84-93: what is raised inside accept_cookies
\* is logged and dropped when the except clause catches it
MainAcceptCookies ==
    /\ main_pc = "accept_cookies"
    /\ \E e \in {"none"} \cup Raised :
        IF e = "none" \/ AcceptCookiesCatches(e)
        THEN /\ main_pc' = "do_login"
             /\ main_exc' = main_exc
             /\ main_done' = Append(main_done, "accept_cookies")
        ELSE /\ main_pc' = "close_browser"
             /\ main_exc' = e
             /\ main_done' = main_done
    /\ UNCHANGED <<kudosVars, mapVars, managerVars, authVars>>

\* bot.py:35
MainDoLogin == MainAwait("do_login", "execute_kudos_giving")

\* bot.py:37-41: the call of execute_kudos_giving.  When the arguments bind, the
\* task enters the body at browser_manager.py:132; when they do not, the call
\* raises and main moves to the finally clause
MainExecuteKudosGiving ==
    /\ main_pc = "execute_kudos_giving"
    /\ IF BindArguments(KeywordsOfMain) = "none"
       THEN /\ main_pc' = "in_execute_kudos_giving"
            /\ main_exc' = main_exc
            /\ pc' = ForScroll(0, number_of_scrolls_to_end)
       ELSE /\ main_pc' = "close_browser"
            /\ main_exc' = BindArguments(KeywordsOfMain)
            /\ pc' = pc
    /\ UNCHANGED <<number_of_scrolls_to_end, athletes_to_skip, save_map_path, scroll_i,
                   feed_entries_count, entry_i, kudos_buttons_count, button_j,
                   owner_name, exc, feed, seen, trace, cancelled>>
    /\ UNCHANGED <<main_done, mapVars, managerVars, authVars>>

\* bot.py:42-43: the finally clause; the pending exception, if any, leaves main
\* afterwards unless close_browser raises one of its own
MainCloseBrowser ==
    /\ main_pc = "close_browser"
    /\ \E at \in {"ok", "close", "stop"} :
        /\ DoCloseBrowser(at)
        /\ IF at = "ok" THEN main_exc' = main_exc ELSE main_exc' \in Raised
    /\ main_pc' = "exited"
    /\ UNCHANGED <<main_done, kudosVars, mapVars, authVars>>

NextMain ==
    \/ MainStartBrowser
    \/ MainNewPage
    \/ MainGoto
    \/ MainAcceptCookies
    \/ MainDoLogin
    \/ MainExecuteKudosGiving
    \/ MainCloseBrowser

SpecMain == InitMain /\ [][NextMain]_vars

\* the awaits main makes before the call of execute_kudos_giving
AuthFlow == <<"start_browser", "new_page", "goto", "accept_cookies", "do_login">>

\* C2: in a run of main whose session start, page acquisition, navigation,
\* accept_cookies and do_login all completed, by the time close_browser is
\* called the configured number of expansions and one pass have been made.
C2_HarvestLoopEntered ==
    (main_done = AuthFlow /\ main_pc \in {"close_browser", "exited"})
        => (scroll_i = number_of_scrolls_to_end /\ pc = "returned")

\* C3: when main has been left, on whatever path, close_browser has been
\* called exactly once.
C3_CloseBrowserOnce == main_pc = "exited" => close_calls = 1

(***************************************************************************)
(* accept_cookies followed by do_login, as main calls them (bot.py:33-35), *)
(* on a page that main has navigated.  A pc names the await the task is    *)
(* suspended at; the page answers each browser call as it pleases.         *)
(***************************************************************************)
MaxLoginButtons == 2

UrlDashboard == <<"/", "d", "a", "s", "h", "b", "o", "a", "r", "d">>
UrlLogin == <<"/", "l", "o", "g", "i", "n">>
UrlOnboarding == <<"/", "o", "n", "b", "o", "a", "r", "d", "i", "n", "g">>
UrlGoogle == <<"g", "o", "o", "g", "l", "e", "/", "s", "i", "g", "n", "i", "n">>
Urls == {UrlDashboard, UrlLogin, UrlOnboarding, UrlGoogle}

Dialogs == {"absent", "no_button", "button"}

\* browser_manager.py:52-61
IsOnDashboardPage(url) == Contains(<<"d", "a", "s", "h", "b", "o", "a", "r", "d">>, url)

\* browser_manager.py:63-72
IsOnLoginPage(url) == Contains(<<"l", "o", "g", "i", "n">>, url)

\* browser_manager.py:99-103: the first await of do_login
DoLoginStart(url) == IF ~IsOnLoginPage(url) THEN "goto_login" ELSE "query_buttons"

\* browser_manager.py:106, 113: the loop head, then the settle delay
ForLoginButton(k, count) == IF k < count THEN "is_visible" ELSE "sleep_2"

\* a plausible slip: no `break`, the loop goes on to the next button
AfterLoginClickNoBreak(k, count) == [pc |-> ForLoginButton(k + 1, count), k |-> k + 1]

\* browser_manager.py:109-111: after the click, `break` leaves the loop
AfterLoginClick(k, count) == [pc |-> "sleep_2", k |-> k]

\* a plausible slip: failing hard when the dashboard is not reached
AfterSettleFailHard(url) == IF ~IsOnDashboardPage(url) THEN "raised" ELSE "login_returned"

\* browser_manager.py:115-119: after the settle delay
AfterSettle(url) == IF ~IsOnDashboardPage(url) THEN "sleep_50" ELSE "login_returned"

AcceptCookiesAwaits == {"wait_for_selector", "query_selector", "cookie_click"}
DoLoginBrowserAwaits == {"goto_login", "query_buttons", "is_visible", "login_click"}
DoLoginSleeps == {"sleep_1", "sleep_2", "sleep_50"}
AuthTerminal == {"login_returned", "raised"}

InitAuth ==
    /\ KudosIdle
    /\ MapIdle
    /\ ManagerIdle
    /\ MainIdle
    /\ page_url \in Urls
    /\ dialog \in Dialogs
    /\ login_buttons = <<>>
    /\ btn_k = 0
    /\ auth_pc = "wait_for_selector"
    /\ auth_exc = "none"
    /\ auth_trace = <<>>

\* browser_manager.py:92-93: an exception e raised inside the try statement of
\* accept_cookies is logged and dropped when `except Exception` catches it, and
\* main goes on to do_login (bot.py:35); otherwise it leaves accept_cookies
AcceptCookiesRaise(e) ==
    IF AcceptCookiesCatches(e)
    THEN /\ auth_pc' = "do_login"
         /\ auth_exc' = auth_exc
         /\ auth_trace' = auth_trace \o <<<<"log_no_banner", 0>>,
                                          <<"accept_cookies_returned", 0>>>>
    ELSE /\ auth_pc' = "raised"
         /\ auth_exc' = e
         /\ auth_trace' = Append(auth_trace, <<"accept_cookies_raised", 0>>)

\* browser_manager.py:85: the dialog shows up within 3000 ms or the wait times out
WaitForSelector ==
    /\ auth_pc = "wait_for_selector"
    /\ IF dialog = "absent"
       THEN AcceptCookiesRaise("TimeoutError")
       ELSE /\ auth_pc' = "query_selector"
            /\ UNCHANGED <<auth_exc, auth_trace>>
    /\ UNCHANGED <<page_url, dialog, login_buttons, btn_k>>
    /\ UNCHANGED <<kudosVars, mapVars, managerVars, mainVars>>

\* browser_manager.py:86-91
QuerySelector ==
    /\ auth_pc = "query_selector"
    /\ IF dialog = "button"
       THEN /\ auth_pc' = "cookie_click"
            /\ UNCHANGED <<auth_exc, auth_trace>>
       ELSE AcceptCookiesRaise("Exception")
    /\ UNCHANGED <<page_url, dialog, login_buttons, btn_k>>
    /\ UNCHANGED <<kudosVars, mapVars, managerVars, mainVars>>

\* browser_manager.py:89, then the return of accept_cookies
CookieClick ==
    /\ auth_pc = "cookie_click"
    /\ auth_pc' = "do_login"
    /\ auth_trace' = auth_trace \o <<<<"cookie_click", 0>>, <<"accept_cookies_returned", 0>>>>
    /\ UNCHANGED <<page_url, dialog, login_buttons, btn_k, auth_exc>>
    /\ UNCHANGED <<kudosVars, mapVars, managerVars, mainVars>>

\* bot.py:35 with browser_manager.py:99: is_on_login_page has no await of its own
DoLoginEnter ==
    /\ auth_pc = "do_login"
    /\ auth_pc' = DoLoginStart(page_url)
    /\ auth_trace' = Append(auth_trace, <<"do_login", 0>>)
    /\ UNCHANGED <<page_url, dialog, login_buttons, btn_k, auth_exc>>
    /\ UNCHANGED <<kudosVars, mapVars, managerVars, mainVars>>

\* browser_manager.py:100: the server may redirect the navigation
GotoLogin ==
    /\ auth_pc = "goto_login"
    /\ page_url' \in Urls
    /\ auth_pc' = "sleep_1"
    /\ auth_trace' = Append(auth_trace, <<"goto_login", 0>>)
    /\ UNCHANGED <<dialog, login_buttons, btn_k, auth_exc>>
    /\ UNCHANGED <<kudosVars, mapVars, managerVars, mainVars>>

\* browser_manager.py:101
LoginSleep1 ==
    /\ auth_pc = "sleep_1"
    /\ auth_pc' = "query_buttons"
    /\ auth_trace' = Append(auth_trace, <<"sleep", 1>>)
    /\ UNCHANGED <<page_url, dialog, login_buttons, btn_k, auth_exc>>
    /\ UNCHANGED <<kudosVars, mapVars, managerVars, mainVars>>

\* browser_manager.py:103-106
QueryButtons ==
    /\ auth_pc = "query_buttons"
    /\ \E count \in 0..MaxLoginButtons :
        /\ login_buttons' \in SeqsOver(BOOLEAN, count)
        /\ auth_pc' = ForLoginButton(0, count)
    /\ btn_k' = 0
    /\ UNCHANGED <<page_url, dialog, auth_exc, auth_trace>>
    /\ UNCHANGED <<kudosVars, mapVars, managerVars, mainVars>>

\* browser_manager.py:108: a hidden button is passed over
IsVisible ==
    /\ auth_pc = "is_visible"
    /\ IF login_buttons[btn_k + 1]
       THEN /\ auth_pc' = "login_click"
            /\ btn_k' = btn_k
       ELSE /\ auth_pc' = ForLoginButton(btn_k + 1, Len(login_buttons))
            /\ btn_k' = btn_k + 1
    /\ UNCHANGED <<page_url, dialog, login_buttons, auth_exc, auth_trace>>
    /\ UNCHANGED <<kudosVars, mapVars, managerVars, mainVars>>

\* browser_manager.py:109-111: the click starts the provider's flow
LoginClick ==
    /\ auth_pc = "login_click"
    /\ page_url' \in Urls
    /\ auth_pc' = AfterLoginClick(btn_k, Len(login_buttons)).pc
    /\ btn_k' = AfterLoginClick(btn_k, Len(login_buttons)).k
    /\ auth_trace' = Append(auth_trace, <<"click", btn_k>>)
    /\ UNCHANGED <<dialog, login_buttons, auth_exc>>
    /\ UNCHANGED <<kudosVars, mapVars, managerVars, mainVars>>

\* browser_manager.py:113-119: the settle delay, during which the page may
\* move on, then the dashboard test
LoginSleep2 ==
    /\ auth_pc = "sleep_2"
    /\ page_url' \in Urls
    /\ auth_pc' = AfterSettle(page_url')
    /\ auth_trace' = Append(auth_trace, <<"sleep", 2>>)
    /\ UNCHANGED <<dialog, login_buttons, btn_k, auth_exc>>
    /\ UNCHANGED <<kudosVars, mapVars, managerVars, mainVars>>

\* browser_manager.py:116-117: the wait in which the operator logs in by hand
LoginSleep50 ==
    /\ auth_pc = "sleep_50"
    /\ page_url' \in Urls
    /\ auth_pc' = "login_returned"
    /\ auth_trace' = Append(auth_trace, <<"sleep", 50>>)
    /\ UNCHANGED <<dialog, login_buttons, btn_k, auth_exc>>
    /\ UNCHANGED <<kudosVars, mapVars, managerVars, mainVars>>

\* a browser call raises (a timeout, a navigation error, a detached element):
\* inside accept_cookies the except clause decides, do_login has no handler
AuthBrowserCallFails ==
    /\ auth_pc \in AcceptCookiesAwaits \cup DoLoginBrowserAwaits
    /\ IF auth_pc \in AcceptCookiesAwaits
       THEN AcceptCookiesRaise("Error")
       ELSE /\ auth_pc' = "raised"
            /\ auth_exc' = "Error"
            /\ auth_trace' = Append(auth_trace, <<"failed", 0>>)
    /\ UNCHANGED <<page_url, dialog, login_buttons, btn_k>>
    /\ UNCHANGED <<kudosVars, mapVars, managerVars, mainVars>>

\* the task is cancelled while suspended at an await
AuthCancel ==
    /\ auth_pc \in AcceptCookiesAwaits \cup DoLoginBrowserAwaits \cup DoLoginSleeps
    /\ IF auth_pc \in AcceptCookiesAwaits
       THEN AcceptCookiesRaise("CancelledError")
       ELSE /\ auth_pc' = "raised"
            /\ auth_exc' = "CancelledError"
            /\ auth_trace' = Append(auth_trace, <<"cancelled", 0>>)
    /\ UNCHANGED <<page_url, dialog, login_buttons, btn_k>>
    /\ UNCHANGED <<kudosVars, mapVars, managerVars, mainVars>>

NextAuth ==
    \/ WaitForSelector
    \/ QuerySelector
    \/ CookieClick
    \/ DoLoginEnter
    \/ GotoLogin
    \/ LoginSleep1
    \/ QueryButtons
    \/ IsVisible
    \/ LoginClick
    \/ LoginSleep2
    \/ LoginSleep50
    \/ AuthBrowserCallFails
    \/ AuthCancel

SpecAuth == InitAuth /\ [][NextAuth]_vars

\* the event loop resumes a task whose await has completed, and every await of
\* accept_cookies and do_login is a timer or a browser call with a timeout
SpecAuthLive == SpecAuth /\ WF_vars(NextAuth)

(***************************************************************************)
(* Claims about accept_cookies and do_login.                               *)
(***************************************************************************)
AuthEvents(kind) == {i \in DOMAIN auth_trace : auth_trace[i][1] = kind}

LastAuthEvent == IF auth_trace = <<>> THEN <<"none", 0>> ELSE auth_trace[Len(auth_trace)]

C12_FirstVisibleButtonOnly ==
    /\ [](/\ Cardinality(AuthEvents("click")) <= 1
          /\ \A i \in AuthEvents("click") :
                /\ login_buttons[auth_trace[i][2] + 1]
                /\ \A m \in 1..auth_trace[i][2] : ~login_buttons[m])
    /\ [][Len(auth_trace') > Len(auth_trace) /\ auth_trace'[Len(auth_trace')][1] = "goto_login"
            => \A n \in 0..(Len(page_url) - 5) :
                  SubSeq(page_url, n + 1, n + 5) # <<"l", "o", "g", "i", "n">>]_vars

C12_Witness ==
    /\ auth_pc = "login_returned"
    /\ login_buttons = <<FALSE, TRUE>>
    /\ AuthEvents("click") # {}
    /\ \A i \in AuthEvents("click") : auth_trace[i][2] = 1
    /\ AuthEvents("goto_login") # {}

\* C13: accept_cookies is left by an exception only when the task is
\* cancelled; when the dialog is absent or has no accept button it returns
\* without clicking; it never clicks more than once; and when dialog and button
\* are there and no browser call fails, it clicks exactly once before returning.
C13_AcceptCookiesReturns ==
    /\ AuthEvents("accept_cookies_raised") # {} => auth_exc = "CancelledError"
    /\ Cardinality(AuthEvents("cookie_click")) <= 1
    /\ dialog # "button" => AuthEvents("cookie_click") = {}
    /\ (dialog = "button" /\ AuthEvents("accept_cookies_returned") # {}
            /\ AuthEvents("log_no_banner") = {})
        => Cardinality(AuthEvents("cookie_click")) = 1
    /\ (auth_pc \notin AcceptCookiesAwaits /\ auth_exc # "CancelledError")
        => Cardinality(AuthEvents("accept_cookies_returned")) = 1

C13_Witness ==
    /\ dialog = "no_button"
    /\ AuthEvents("accept_cookies_returned") # {}
    /\ AuthEvents("log_no_banner") # {}
    /\ AuthEvents("cookie_click") = {}
    /\ auth_pc = "login_returned"

(***************************************************************************)
(* Claims about the name of the file save_activity_map writes.             *)
(***************************************************************************)
\* the subtype of a content-type value: what stands between the `/` of the media
\* type and the first `;`
MediaSubtype(content_type) ==
    LET media == SplitFirst(content_type, ";")
    IN  SubSeq(media, Find(media, {"/"}, 1) + 1, Len(media))

\* C14: the file a call writes is named <stem>.<ext>, where ext is the subtype
\* of the content-type header (png when the header is missing), also when a
\* parameter of the header contains a `/`, and stem is the stem of the last
\* path segment of the src, or "map" when that stem is empty.
C14_ExtensionIsMediaSubtype ==
    (map_calls = 1 /\ writes = 1)
        => \E f \in files :
              f.name = (IF PathStem(UrlPath(map_imgs[1])) = <<>> THEN <<"m", "a", "p">>
                        ELSE PathStem(UrlPath(map_imgs[1])))
                       \o <<".">>
                       \o (IF responses[1].content_type = <<>> THEN <<"p", "n", "g">>
                           ELSE MediaSubtype(responses[1].content_type[1]))

(***************************************************************************)
(* Claims about the expansions and the pass of execute_kudos_giving.       *)
(***************************************************************************)
TraceEvents(kind) == {i \in DOMAIN trace : trace[i][1] = kind}

\* C15: a failure of one of the two evaluate calls of scroll_to_bottom_of_page
\* does not end the run: execute_kudos_giving is not left by that exception
\* with expansions still to make.
C15_EvaluateFailureDoesNotAbort ==
    ~(/\ pc = "raised"
      /\ exc = "Error"
      /\ ~cancelled
      /\ scroll_i < number_of_scrolls_to_end
      /\ TraceEvents("give_kudos") = {})

C17_AbsenceCasesWriteNothing ==
    /\ []((Len(map_imgs) # 1 \/ map_imgs[1] = <<>>) => (fetches = 0 /\ writes = 0))
    /\ [][(/\ map_calls' = map_calls + 1
           /\ \/ Len(map_imgs) # 1
              \/ map_imgs[1] = <<>>
              \/ (Len(responses') > Len(responses) /\ ~responses'[Len(responses')].ok))
            => (files' = files /\ writes' = writes)]_vars

C17_Witness ==
    /\ map_calls = MaxCalls
    /\ Len(map_imgs) = 1
    /\ fetches = MaxCalls
    /\ \A k \in DOMAIN responses : ~responses[k].ok
    /\ writes = 0

(***************************************************************************)
(* Claims about the order of the pass.                                     *)
(***************************************************************************)
EntryKinds == {"save_map", "owner", "already", "skip", "click"}

\* C18: with save_map_path given, whatever give_kudos does to an entry comes
\* after the save_activity_map call for that entry, the entries are taken in
\* ascending DOM order with one save_activity_map call each, and a pass that
\* returns has called save_activity_map for every entry of the feed, clicked
\* or not.
C18_SaveMapBeforeClicks ==
    save_map_path =>
        LET saves == TraceEvents("save_map")
        IN  /\ \A i \in DOMAIN trace :
                  trace[i][1] \in {"owner", "already", "skip", "click"}
                      => \E k \in saves : k < i /\ trace[k][2] = trace[i][2]
            /\ \A k \in saves : \A i \in DOMAIN trace :
                  trace[i][1] \in EntryKinds
                      => /\ i < k => trace[i][2] < trace[k][2]
                         /\ i > k => trace[i][2] >= trace[k][2]
            /\ pc = "returned"
                  => {trace[k][2] : k \in saves} = 0..(feed_entries_count - 1)

C18_Witness ==
    /\ pc = "returned"
    /\ save_map_path
    /\ feed_entries_count = 2
    /\ Cardinality(TraceEvents("save_map")) = 2
    /\ seen[1].items = <<>>
    /\ \E i \in TraceEvents("click") : trace[i][2] = 1

\* C19: for an entry that shows no kudos button, give_kudos looks up no owner
\* name and makes no decision and no click; and the pass does not end there: a
\* pass that returns has been through every entry of the feed.
C19_NoButtonsNoLookup ==
    /\ \A e \in DOMAIN seen :
          seen[e].items = <<>>
              => \A i \in DOMAIN trace :
                    trace[i][1] \in {"owner", "already", "skip", "click"}
                        => trace[i][2] # e - 1
    /\ pc = "returned" => Len(seen) = feed_entries_count

C19_Witness ==
    /\ pc = "returned"
    /\ ~save_map_path
    /\ feed_entries_count = 2
    /\ seen[1].items = <<>>
    /\ TraceEvents("owner") # {}
    /\ \A i \in TraceEvents("owner") : trace[i][2] = 1
    /\ \E i \in TraceEvents("click") : trace[i][2] = 1

\* the entry shows no owner label anywhere
NoOwnerLabel(entry) ==
    /\ entry.labels = <<>>
    /\ \A k \in DOMAIN entry.wrap : entry.wrap[k].labels = <<>>
    /\ \A k \in DOMAIN entry.items : entry.items[k].labels = <<>>

\* C20: when give_kudos looks up the owner name for a button of an entry that
\* shows no owner label, that lookup is the last thing the pass does: the
\* error leaves give_kudos and execute_kudos_giving, and neither that button,
\* already acted or not, nor any later button is decided on or clicked.
C20_FailedLookupRaises ==
    \A i \in DOMAIN trace :
        (trace[i][1] = "owner" /\ NoOwnerLabel(seen[trace[i][2] + 1]))
            => /\ i = Len(trace)
               /\ pc = "raised"
               /\ exc = "Error"
               /\ ClickCount(trace[i][2], trace[i][3]) = 0

C20_Witness ==
    /\ pc = "raised"
    /\ exc = "Error"
    /\ feed_entries_count = 2
    /\ trace # <<>>
    /\ trace[Len(trace)] = <<"owner", 1, 0>>
    /\ Len(seen) = 2
    /\ NoOwnerLabel(seen[2])
    /\ ~seen[2].items[1].unfilled
    /\ ClickCount(0, 0) = 1

====
